---- MODULE Spec2Model ----
(***************************************************************************)
(* Model of the content pipeline of nuevos_posts_felinos: the slug and     *)
(* status helpers (pipeline/utils/helpers.py), the sheet client's header   *)
(* resolution, row parsing and exact duplicate rule                        *)
(* (pipeline/services/google_sheet.py), the semantic duplicate stage       *)
(* (pipeline/services/content_generator.py) and the per-row loop of        *)
(* orchestrate (pipeline/main.py).                                         *)
(*                                                                         *)
(* A Python str is modelled as a sequence of characters.  A character is a *)
(* one-character string; the two accented letters the sheet headers use    *)
(* are written "i_acute"/"I_acute" and "o_acute"/"O_acute".                *)
(***************************************************************************)
EXTENDS Naturals, Sequences, FiniteSets, TLC

VARIABLES
    call,                   \* the helper call under study: its name and arguments
    ret,                    \* the values that call has returned so far
    main_sheet,             \* raw rows of the main sheet, header row first
    index_sheet,            \* raw rows of the history sheet, header row first
    alias_order,            \* iteration order of each HEADER_ALIASES set in this process
    main_header_indices,    \* GoogleSheetClient._main_header_indices
    main_normalized_header, \* GoogleSheetClient._main_normalized_header
    rows,                   \* orchestrate: rows = get_rows_to_process()
    index_records,          \* orchestrate: the in-memory Identity Index
    pc,                     \* orchestrate: position in the per-row loop
    cur,                    \* orchestrate: 1-based position in rows of the row in the loop
    work,                   \* orchestrate: locals of the current iteration
    writes,                 \* cell writes the main sheet has accepted, in order
    published,              \* posts the publishing backend has created, in order
    trace                   \* steps taken for the row in the loop (observation only)

vars == <<call, ret, main_sheet, index_sheet, alias_order, main_header_indices,
          main_normalized_header, rows, index_records, pc, cur, work, writes,
          published, trace>>

helperVars == <<call, ret>>
pipelineVars == <<main_sheet, index_sheet, alias_order, main_header_indices,
                  main_normalized_header, rows, index_records, pc, cur, work,
                  writes, published, trace>>

(***************************************************************************)
(* Bounds of the model.                                                    *)
(***************************************************************************)
\* longest body of a slug/URL input of extract_slug, after its scheme prefix
MaxBody == 4
\* most data rows of the main sheet of a run
MaxRows == 2
\* most data rows of the history sheet of a run
MaxIndexRows == 1
\* most copies of one record at the head of the index of a semantic query
MaxFill == 26
\* most other records after them
MaxCore == 2
\* most data rows of the history sheet of an exact duplicate check
MaxDupRows == 2
\* most cells of a header row given to the parser
MaxHeader == 3

\* the sequences over S of length at most n
BoundedSeq(S, n) == UNION {[1..k -> S] : k \in 0..n}

(***************************************************************************)
(* Python str primitives.                                                  *)
(***************************************************************************)
EmptyStr == <<>>

\* str.isspace() for the characters the inputs use
IsSpace(c) == c \in {" ", "\t", "\n", "\r"}

UpperChars ==
    <<"A", "B", "C", "D", "E", "F", "G", "H", "I", "J", "K", "L", "M", "N", "O",
      "P", "Q", "R", "S", "T", "U", "V", "W", "X", "Y", "Z", "I_acute", "O_acute">>

LowerChars ==
    <<"a", "b", "c", "d", "e", "f", "g", "h", "i", "j", "k", "l", "m", "n", "o",
      "p", "q", "r", "s", "t", "u", "v", "w", "x", "y", "z", "i_acute", "o_acute">>

LowerMap ==
    [c \in {UpperChars[i] : i \in 1..Len(UpperChars)} |->
        LowerChars[CHOOSE i \in 1..Len(UpperChars) : UpperChars[i] = c]]

LowerChar(c) == IF c \in DOMAIN LowerMap THEN LowerMap[c] ELSE c

\* str.lower()
Lower(s) == [i \in 1..Len(s) |-> LowerChar(s[i])]

RECURSIVE LStrip(_)
\* str.lstrip()
LStrip(s) == IF s # <<>> /\ IsSpace(Head(s)) THEN LStrip(Tail(s)) ELSE s

RECURSIVE RStrip(_)
\* str.rstrip()
RStrip(s) ==
    IF s # <<>> /\ IsSpace(s[Len(s)]) THEN RStrip(SubSeq(s, 1, Len(s) - 1)) ELSE s

\* str.strip()
Strip(s) == RStrip(LStrip(s))

\* str.startswith(prefix)
StartsWith(s, prefix) ==
    Len(s) >= Len(prefix) /\ SubSeq(s, 1, Len(prefix)) = prefix

\* s[n:]
From(s, n) == SubSeq(s, n + 1, Len(s))

\* the lowest position >= start of a character of chars, Len(s) + 1 when none
FindFirst(s, chars, start) ==
    LET hits == {i \in start..Len(s) : s[i] \in chars}
    IN  IF hits = {} THEN Len(s) + 1 ELSE CHOOSE i \in hits : \A j \in hits : i <= j

\* str.rfind(c) as a 1-based position, 0 when none
RFind(s, c) ==
    LET hits == {i \in 1..Len(s) : s[i] = c}
    IN  IF hits = {} THEN 0 ELSE CHOOSE i \in hits : \A j \in hits : i >= j

RECURSIVE RStripChar(_, _)
\* str.rstrip(c) for a single character c
RStripChar(s, c) ==
    IF s # <<>> /\ s[Len(s)] = c THEN RStripChar(SubSeq(s, 1, Len(s) - 1), c) ELSE s

RECURSIVE LStripChar(_, _)
\* str.lstrip(c) for a single character c
LStripChar(s, c) ==
    IF s # <<>> /\ Head(s) = c THEN LStripChar(Tail(s), c) ELSE s

\* s.split(c)[-1]: what follows the last c, the whole of s when it holds none
LastSegment(s, c) == From(s, RFind(s, c))

\* the needle occurs in s as a contiguous run (Python: needle in s)
Contains(s, needle) ==
    \E k \in 0..(Len(s) - Len(needle)) : SubSeq(s, k + 1, k + Len(needle)) = needle

HttpPrefix == <<"h", "t", "t", "p", ":", "/", "/">>
HttpsPrefix == <<"h", "t", "t", "p", "s", ":", "/", "/">>

(***************************************************************************)
(* urllib.parse.urlparse(raw).path for a raw that starts with http:// or   *)
(* https://.  urlsplit drops tab, CR and LF, takes the scheme up to the    *)
(* first ':', the netloc from after "//" up to the first of "/?#", cuts    *)
(* the fragment at the first '#' and the query at the first '?'; urlparse  *)
(* then cuts the params at the first ';' of the last path segment.  The    *)
(* inputs hold no '[' or ']', the only characters urlsplit rejects.        *)
(***************************************************************************)
UrlPath(raw) ==
    LET url0 == SelectSeq(raw, LAMBDA c : c \notin {"\t", "\n", "\r"})
        afterScheme == From(url0, FindFirst(url0, {":"}, 1))
        afterSlashes == From(afterScheme, 2)
        url1 == From(afterSlashes, FindFirst(afterSlashes, {"/", "?", "#"}, 1) - 1)
        url2 == SubSeq(url1, 1, FindFirst(url1, {"#"}, 1) - 1)
        url3 == SubSeq(url2, 1, FindFirst(url2, {"?"}, 1) - 1)
        semi == FindFirst(url3, {";"}, IF RFind(url3, "/") = 0 THEN 1 ELSE RFind(url3, "/"))
    IN  SubSeq(url3, 1, semi - 1)

(***************************************************************************)
(* helpers.py                                                              *)
(***************************************************************************)
\* sanitize_status: (value or "").strip().lower()
\* sanitize_status without the lower-casing
sanitize_status_cased(value) == Strip(value)

sanitize_status(value) == Lower(Strip(value))

\* extract_slug: the scheme test is case-sensitive, the result is lower-cased
\* extract_slug taking the last path segment of every value, URL or not
extract_slug_any_path(value) ==
    IF value = <<>> THEN <<>>
    ELSE LET raw == Strip(value)
         IN  IF raw = <<>> THEN <<>>
             ELSE IF StartsWith(raw, HttpPrefix) \/ StartsWith(raw, HttpsPrefix)
                  THEN Lower(Strip(LastSegment(RStripChar(UrlPath(raw), "/"), "/")))
                  ELSE Lower(Strip(LastSegment(RStripChar(raw, "/"), "/")))

\* extract_slug removing the slashes around a value that is not a URL
extract_slug_unslashed(value) ==
    IF value = <<>> THEN <<>>
    ELSE LET raw == Strip(value)
         IN  IF raw = <<>> THEN <<>>
             ELSE IF StartsWith(raw, HttpPrefix) \/ StartsWith(raw, HttpsPrefix)
                  THEN Lower(Strip(LastSegment(RStripChar(UrlPath(raw), "/"), "/")))
                  ELSE Lower(Strip(LStripChar(RStripChar(raw, "/"), "/")))

extract_slug(value) ==
    IF value = <<>> THEN <<>>
    ELSE LET raw == Strip(value)
         IN  IF raw = <<>> THEN <<>>
             ELSE IF StartsWith(raw, HttpPrefix) \/ StartsWith(raw, HttpsPrefix)
                  THEN Lower(Strip(LastSegment(RStripChar(UrlPath(raw), "/"), "/")))
                  ELSE Lower(Strip(raw))

\* build_post_url
build_post_url(base_url, slug) ==
    IF base_url = <<>> \/ slug = <<>> THEN <<>>
    ELSE RStripChar(base_url, "/") \o <<"/">> \o LStripChar(slug, "/")

(***************************************************************************)
(* google_sheet.py: header aliases.                                        *)
(***************************************************************************)
HEADER_TITULO == <<"t", "i_acute", "t", "u", "l", "o">>
HEADER_KEYWORD ==
    <<"k", "e", "y", "w", "o", "r", "d", " ", "p", "r", "i", "n", "c", "i", "p", "a", "l">>
HEADER_DESCRIPCION ==
    <<"d", "e", "s", "c", "r", "i", "p", "c", "i", "o_acute", "n", " ",
      "p", "a", "r", "a", " ", "e", "l", " ", "g", "p", "t">>
HEADER_CATEGORIA == <<"c", "a", "t", "e", "g", "o", "r", "i_acute", "a">>
HEADER_EJECUTAR == <<"e", "j", "e", "c", "u", "t", "a", "r", "?">>
HEADER_SLUG == <<"s", "l", "u", "g">>

s_url == <<"u", "r", "l">>

\* the keys of HEADER_ALIASES in the dict's insertion order
HEADER_KEYS ==
    <<HEADER_TITULO, HEADER_KEYWORD, HEADER_DESCRIPCION, HEADER_CATEGORIA,
      HEADER_EJECUTAR, HEADER_SLUG>>

\* HEADER_ALIASES: each value a Python set, written here in the source's order
HEADER_ALIASES ==
    (HEADER_TITULO :> <<HEADER_TITULO, <<"t", "i", "t", "u", "l", "o">> >>) @@
    (HEADER_KEYWORD :>
        <<HEADER_KEYWORD,
          <<"k", "e", "y", "w", "o", "r", "d", "_",
            "p", "r", "i", "n", "c", "i", "p", "a", "l">> >>) @@
    (HEADER_DESCRIPCION :>
        <<HEADER_DESCRIPCION,
          <<"d", "e", "s", "c", "r", "i", "p", "c", "i", "o", "n", " ",
            "p", "a", "r", "a", " ", "e", "l", " ", "g", "p", "t">>,
          <<"d", "e", "s", "c", "r", "i", "p", "c", "i", "o", "n">>,
          <<"d", "e", "s", "c", "r", "i", "p", "c", "i", "o_acute", "n">> >>) @@
    (HEADER_CATEGORIA :>
        <<HEADER_CATEGORIA, <<"c", "a", "t", "e", "g", "o", "r", "i", "a">> >>) @@
    (HEADER_EJECUTAR :>
        <<HEADER_EJECUTAR,
          <<"e", "j", "e", "c", "u", "t", "a", "r">>,
          <<"s", "t", "a", "t", "u", "s">>,
          <<"e", "s", "t", "a", "d", "o">> >>) @@
    (HEADER_SLUG :> <<HEADER_SLUG, s_url>>)

Range(f) == {f[x] : x \in DOMAIN f}

\* the orders in which iterating a set with these elements can yield them: a
\* Python set of str iterates in an order fixed by the process's hash seed
IterationOrders(elems) ==
    {p \in [1..Len(elems) -> Range(elems)] : Range(p) = Range(elems)}

\* the iteration orders of the alias set of key k: all of them when k is in
\* varying, else only the source's written order (the order of a set cannot
\* matter for a header row that holds at most one of its aliases)
OrdersOf(k, varying) ==
    IF k \in varying THEN IterationOrders(HEADER_ALIASES[k]) ELSE {HEADER_ALIASES[k]}

\* one iteration order per alias set
AliasOrders(varying) ==
    {(HEADER_TITULO :> o1) @@ (HEADER_KEYWORD :> o2) @@ (HEADER_DESCRIPCION :> o3) @@
     (HEADER_CATEGORIA :> o4) @@ (HEADER_EJECUTAR :> o5) @@ (HEADER_SLUG :> o6) :
        o1 \in OrdersOf(HEADER_TITULO, varying),
        o2 \in OrdersOf(HEADER_KEYWORD, varying),
        o3 \in OrdersOf(HEADER_DESCRIPCION, varying),
        o4 \in OrdersOf(HEADER_CATEGORIA, varying),
        o5 \in OrdersOf(HEADER_EJECUTAR, varying),
        o6 \in OrdersOf(HEADER_SLUG, varying)}

(***************************************************************************)
(* google_sheet.py: reading a sheet.                                       *)
(***************************************************************************)
\* dict.get(key, "") on a row or record
Get(rec, key) == IF key \in DOMAIN rec THEN rec[key] ELSE <<>>

\* _parse_rows: {value.strip().lower(): idx for idx, value in enumerate(header_row)};
\* a later cell with the same normalized text replaces an earlier one
\* the header mapping keyed by the cells as written
NormalizedHeaderVerbatim(header_row) ==
    [k \in {header_row[i] : i \in 1..Len(header_row)} |->
        LET at == {i \in 1..Len(header_row) : header_row[i] = k}
        IN  (CHOOSE i \in at : \A j \in at : i >= j) - 1]

NormalizedHeader(header_row) ==
    [k \in {Lower(Strip(header_row[i])) : i \in 1..Len(header_row)} |->
        LET at == {i \in 1..Len(header_row) : Lower(Strip(header_row[i])) = k}
        IN  (CHOOSE i \in at : \A j \in at : i >= j) - 1]

\* the first alias, in iteration order, that the normalized header holds
FirstPresent(aliases, normalized_header) ==
    LET hits == {i \in 1..Len(aliases) : Lower(Strip(aliases[i])) \in DOMAIN normalized_header}
    IN  Lower(Strip(aliases[CHOOSE i \in hits : \A j \in hits : i <= j]))

\* _resolve_header_indices: (resolved, alias_used)
_resolve_header_indices(normalized_header, order) ==
    LET found == {k \in Range(HEADER_KEYS) :
                    \E i \in 1..Len(order[k]) :
                        Lower(Strip(order[k][i])) \in DOMAIN normalized_header}
    IN  [resolved |-> [k \in found |-> normalized_header[FirstPresent(order[k], normalized_header)]],
         alias_used |-> [k \in found |-> FirstPresent(order[k], normalized_header)]]

\* _safe_get: idx is 0-based; an unmapped field or a short row reads as ""
\* _safe_get reading the first column for a field without a column
_safe_get_first_column(row, header_index, header_name) ==
    IF header_name \notin DOMAIN header_index
    THEN IF Len(row) = 0 THEN <<>> ELSE Strip(row[1])
    ELSE IF header_index[header_name] >= Len(row) THEN <<>>
    ELSE Strip(row[header_index[header_name] + 1])

_safe_get(row, header_index, header_name) ==
    IF header_name \notin DOMAIN header_index \/ header_index[header_name] >= Len(row)
    THEN <<>>
    ELSE Strip(row[header_index[header_name] + 1])

\* _get_value_by_normalized
_get_value_by_normalized(row, normalized_map, key) ==
    IF key \notin DOMAIN normalized_map \/ normalized_map[key] >= Len(row)
    THEN <<>>
    ELSE Strip(row[normalized_map[key] + 1])

\* _derive_url: the scheme test is case-insensitive
_derive_url(raw_value) ==
    IF raw_value = <<>> THEN <<>>
    ELSE LET value == Strip(raw_value)
         IN  IF StartsWith(Lower(value), HttpPrefix) \/ StartsWith(Lower(value), HttpsPrefix)
             THEN value
             ELSE <<>>

\* the body of the loop of _parse_rows: one parsed row
ParsedRow(row, row_idx, resolved_indices, normalized) ==
    LET slug_raw == _safe_get(row, resolved_indices, HEADER_SLUG)
        url_value == _get_value_by_normalized(row, normalized, s_url)
    IN  [row_number |-> row_idx,
         titulo |-> _safe_get(row, resolved_indices, HEADER_TITULO),
         keyword |-> _safe_get(row, resolved_indices, HEADER_KEYWORD),
         descripcion |-> _safe_get(row, resolved_indices, HEADER_DESCRIPCION),
         categoria |-> _safe_get(row, resolved_indices, HEADER_CATEGORIA),
         ejecutar |-> _safe_get(row, resolved_indices, HEADER_EJECUTAR),
         slug_raw |-> slug_raw,
         slug |-> extract_slug(slug_raw),
         url |-> IF _derive_url(url_value) # <<>> THEN _derive_url(url_value)
                 ELSE _derive_url(slug_raw)]

\* _parse_rows: the parsed rows and the header state _record_headers stores
_parse_rows(raw_rows, order) ==
    IF raw_rows = <<>>
    THEN [parsed_rows |-> <<>>, indices |-> <<>>, normalized |-> <<>>]
    ELSE LET header_row == raw_rows[1]
             normalized == NormalizedHeader(header_row)
             resolved_indices == _resolve_header_indices(normalized, order).resolved
         IN  [parsed_rows |->
                 [n \in 1..(Len(raw_rows) - 1) |->
                     ParsedRow(raw_rows[n + 1], n + 1, resolved_indices, normalized)],
              indices |-> resolved_indices,
              normalized |-> normalized]

\* the outcomes of a read request: answered; refused with HttpError, which
\* _fetch_sheet_values logs and turns into None; any other exception
ReadOutcomes == {"ok", "http_error", "raise"}

\* _fetch_sheet_values: the sheet's rows, or None (read here as no rows: every
\* caller tests "not raw_rows") when the read fails with HttpError
_fetch_sheet_values(sheet, outcome) == IF outcome = "ok" THEN sheet ELSE <<>>

\* the filter of get_rows_to_process
RowsFlaggedSi(parsed_rows) ==
    SelectSeq(parsed_rows, LAMBDA row : sanitize_status(Get(row, "ejecutar")) = <<"s", "i">>)

(***************************************************************************)
(* google_sheet.py: the exact duplicate rule.                              *)
(***************************************************************************)
\* one iteration of the loop of is_duplicate: the record's slug field is used
\* as stored; only a record without one falls back to extract_slug of its url
\* the three predicates of is_duplicate without their non-empty tests
RecordMatchesUnguarded(record, title_normalized, keyword_normalized, slug_normalized) ==
    LET recorded_title == Lower(Strip(Get(record, "titulo")))
        recorded_keyword == Lower(Strip(Get(record, "keyword")))
        recorded_slug == IF Get(record, "slug") # <<>> THEN Get(record, "slug")
                         ELSE extract_slug(Get(record, "url"))
    IN  \/ recorded_slug = slug_normalized
        \/ recorded_title = title_normalized
        \/ recorded_keyword = keyword_normalized

RecordMatches(record, title_normalized, keyword_normalized, slug_normalized) ==
    LET recorded_title == Lower(Strip(Get(record, "titulo")))
        recorded_keyword == Lower(Strip(Get(record, "keyword")))
        recorded_slug == IF Get(record, "slug") # <<>> THEN Get(record, "slug")
                         ELSE extract_slug(Get(record, "url"))
    IN  \/ slug_normalized # <<>> /\ recorded_slug # <<>> /\ recorded_slug = slug_normalized
        \/ recorded_title # <<>> /\ recorded_title = title_normalized
        \/ keyword_normalized # <<>> /\ recorded_keyword # <<>>
              /\ recorded_keyword = keyword_normalized

\* is_duplicate
is_duplicate(title, keyword, slug, records) ==
    \E i \in 1..Len(records) :
        RecordMatches(records[i], Lower(Strip(title)), Lower(Strip(keyword)),
                      extract_slug(slug))

(***************************************************************************)
(* content_generator.py: the semantic duplicate stage.                     *)
(***************************************************************************)
\* the default of the limit parameter of _select_relevant_index
limit == 25

\* the test of the filter loop of _select_relevant_index
\* the relevance test with the containment of the keywords the other way round
IsRelevantReversed(record, keyword, category) ==
    LET record_keyword == Lower(Strip(Get(record, "keyword")))
        record_category == Lower(Strip(Get(record, "categoria")))
    IN  \/ keyword # <<>> /\ record_keyword # <<>> /\ Contains(keyword, record_keyword)
        \/ category # <<>> /\ record_category # <<>> /\ category = record_category

IsRelevant(record, keyword, category) ==
    LET record_keyword == Lower(Strip(Get(record, "keyword")))
        record_category == Lower(Strip(Get(record, "categoria")))
    IN  \/ keyword # <<>> /\ record_keyword # <<>> /\ Contains(record_keyword, keyword)
        \/ category # <<>> /\ record_category # <<>> /\ category = record_category

\* what _select_relevant_index sends of one record
Summary(rec) ==
    [title |-> Get(rec, "titulo"), keyword |-> Get(rec, "keyword"),
     category |-> Get(rec, "categoria"), slug |-> Get(rec, "slug"),
     url |-> Get(rec, "url")]

\* _select_relevant_index without the cut to the first limit records
_select_relevant_index_uncut(candidate, records) ==
    LET keyword == Lower(Strip(Get(candidate, "keyword")))
        category == Lower(Strip(Get(candidate, "categoria")))
        matching == SelectSeq(records, LAMBDA record : IsRelevant(record, keyword, category))
        filtered == IF matching = <<>> THEN records ELSE matching
    IN  [i \in 1..Len(filtered) |-> Summary(filtered[i])]

\* _select_relevant_index
_select_relevant_index(candidate, records) ==
    LET keyword == Lower(Strip(Get(candidate, "keyword")))
        category == Lower(Strip(Get(candidate, "categoria")))
        matching == SelectSeq(records, LAMBDA record : IsRelevant(record, keyword, category))
        filtered == IF matching = <<>> THEN records ELSE matching
        trimmed == SubSeq(filtered, 1, IF Len(filtered) < limit THEN Len(filtered) ELSE limit)
    IN  [i \in 1..Len(trimmed) |-> Summary(trimmed[i])]

\* what the model's reply to the duplicate query can be: the call raises; the
\* response holds no output[0].content[0].text; the text is not JSON; the JSON
\* is not an object; the JSON is an object whose "duplicate" is truthy or not
ResponseKinds == {"call_raises", "no_text", "invalid_json", "not_object", "object"}

Responses ==
    {[kind |-> k, duplicate |-> d] : k \in ResponseKinds, d \in BOOLEAN} \
        {[kind |-> k, duplicate |-> TRUE] : k \in ResponseKinds \ {"object"}}

\* is_semantic_duplicate: called says whether the model was queried, raised
\* whether an exception left the method, value is the returned bool.  Only the
\* call itself and json.loads sit in a try block: _extract_text raises
\* ValueError, and result.get fails on a JSON value that is not an object.
\* is_semantic_duplicate without the early return on an empty selection
is_semantic_duplicate_unguarded(candidate, records, response) ==
    CASE response.kind = "call_raises" ->
            [called |-> TRUE, raised |-> FALSE, value |-> FALSE]
      [] response.kind = "no_text" ->
            [called |-> TRUE, raised |-> TRUE, value |-> FALSE]
      [] response.kind = "invalid_json" ->
            [called |-> TRUE, raised |-> FALSE, value |-> FALSE]
      [] response.kind = "not_object" ->
            [called |-> TRUE, raised |-> TRUE, value |-> FALSE]
      [] OTHER ->
            [called |-> TRUE, raised |-> FALSE, value |-> response.duplicate]

is_semantic_duplicate(candidate, records, response) ==
    IF _select_relevant_index(candidate, records) = <<>>
    THEN [called |-> FALSE, raised |-> FALSE, value |-> FALSE]
    ELSE CASE response.kind = "call_raises" ->
                [called |-> TRUE, raised |-> FALSE, value |-> FALSE]
           [] response.kind = "no_text" ->
                [called |-> TRUE, raised |-> TRUE, value |-> FALSE]
           [] response.kind = "invalid_json" ->
                [called |-> TRUE, raised |-> FALSE, value |-> FALSE]
           [] response.kind = "not_object" ->
                [called |-> TRUE, raised |-> TRUE, value |-> FALSE]
           [] OTHER ->
                [called |-> TRUE, raised |-> FALSE, value |-> response.duplicate]

(***************************************************************************)
(* google_sheet.py: writing to the main sheet.                             *)
(***************************************************************************)
s_post_id == <<"p", "o", "s", "t", "_", "i", "d">>
s_excerpt == <<"e", "x", "c", "e", "r", "p", "t">>
s_hecho == <<"h", "e", "c", "h", "o">>
s_error == <<"e", "r", "r", "o", "r">>
s_duplicado == <<"d", "u", "p", "l", "i", "c", "a", "d", "o">>

ADDITIONAL_ALIASES ==
    (HEADER_SLUG :> {HEADER_SLUG, s_url}) @@
    (s_url :> {s_url, <<"l", "i", "n", "k">>}) @@
    (s_post_id :>
        {s_post_id, <<"p", "o", "s", "t", " ", "i", "d">>, <<"i", "d">>,
         <<"p", "o", "s", "t", "i", "d">>}) @@
    (s_excerpt :>
        {<<"e", "x", "t", "r", "a", "c", "t", "o">>,
         <<"e", "x", "t", "r", "a", "c", "t", "o", "_", "2", "0", "0">>,
         <<"e", "x", "t", "r", "a", "c", "t", "o", " ", "2", "0", "0">>,
         <<"r", "e", "s", "u", "m", "e", "n">>, s_excerpt})

\* the column mark_status writes when the header row holds no execution-flag alias
DefaultEjecutarIdx == 4

\* mark_status: the 0-based column of the status cell
StatusColumn(header_indices) ==
    IF HEADER_EJECUTAR \in DOMAIN header_indices THEN header_indices[HEADER_EJECUTAR]
    ELSE DefaultEjecutarIdx

\* the outcomes of a write request to the sheet: accepted; refused with
\* HttpError, which _update_values and update_main_row log and swallow; any
\* other exception, which they let through
WriteOutcomes == {"ok", "http_error", "raise"}

\* _get_main_column_index: the candidates set built for a key
Candidates(key) ==
    LET normalized_key == Lower(Strip(key))
        header_aliases ==
            IF normalized_key \in DOMAIN HEADER_ALIASES THEN Range(HEADER_ALIASES[normalized_key])
            ELSE IF key \in DOMAIN HEADER_ALIASES THEN Range(HEADER_ALIASES[key])
            ELSE {}
        additional ==
            IF normalized_key \in DOMAIN ADDITIONAL_ALIASES THEN ADDITIONAL_ALIASES[normalized_key]
            ELSE {}
    IN  {normalized_key} \cup {Lower(Strip(a)) : a \in header_aliases}
            \cup {Lower(Strip(a)) : a \in additional}

\* _get_main_column_index: the columns it can return for a key, none when the
\* set is empty.  It returns the column of the first candidate, in the set's
\* iteration order, that the header holds.
_get_main_column_index(key, normalized_header) ==
    IF Lower(Strip(key)) = <<>> THEN {}
    ELSE {normalized_header[c] : c \in Candidates(key) \cap DOMAIN normalized_header}

\* the keys of the dict orchestrate passes to update_main_row, in its order
AuxKeys == <<HEADER_SLUG, s_url, s_post_id, s_excerpt>>

RECURSIVE UpdateListsFrom(_, _, _, _)
\* update_main_row: the lists of cell updates it can build for data from its
\* i-th key on, one per way of resolving each key's column; a key without a
\* column is skipped
UpdateListsFrom(i, row_number, data, normalized_header) ==
    IF i > Len(AuxKeys) THEN {<<>>}
    ELSE LET cols == _get_main_column_index(AuxKeys[i], normalized_header)
             rest == UpdateListsFrom(i + 1, row_number, data, normalized_header)
         IN  IF cols = {} THEN rest
             ELSE {<<[row |-> row_number, col |-> c, key |-> AuxKeys[i],
                      value |-> data[AuxKeys[i]]]>> \o r : c \in cols, r \in rest}

(***************************************************************************)
(* main.py: orchestrate.                                                   *)
(***************************************************************************)
\* WORDPRESS_BASE_URL of the run
WORDPRESS_BASE_URL == <<"h", "t", "t", "p", ":", "/", "/", "b", "/">>

\* the length orchestrate cuts the excerpt to
ExcerptLen == 200

\* s[:n]
Truncate(s, n) == SubSeq(s, 1, IF Len(s) < n THEN Len(s) ELSE n)

NoWork ==
    [title |-> <<>>, meta_description |-> <<>>, response_slug |-> <<>>,
     post_url |-> <<>>, post_id_str |-> <<>>, excerpt |-> <<>>]

\* what generate can return: a validated payload
Payloads ==
    {[title |-> t, meta_description |-> m] :
        t \in {<<"g">>}, m \in {<<>>, <<"m">>}}

\* what publish_post can return: the backend's JSON; an absent id, slug or link
\* reads as empty
PostResponses ==
    {[id |-> i, slug |-> sl, link |-> l] :
        i \in {<<"7">>}, sl \in {<<>>, <<"w">>},
        l \in {<<>>, <<"h", "t", "t", "p", ":", "/", "/", "b", "/", "w">>}}

Row == rows[cur]

Event(ev) == [row |-> Row.row_number, ev |-> ev]

\* mark_status: one cell, kept by the sheet only when the request is accepted
mark_status(row_number, status, outcome) ==
    writes' = IF outcome = "ok"
              THEN Append(writes,
                          <<[row |-> row_number, col |-> StatusColumn(main_header_indices),
                             key |-> HEADER_EJECUTAR, value |-> status]>>)
              ELSE writes

\* the end of an iteration of the loop: the next row, or the end of the run
Continue ==
    /\ cur' = cur + 1
    /\ pc' = IF cur < Len(rows) THEN "exact" ELSE "done"

\* rows = google_client.get_rows_to_process(); an empty result ends the run
GetRowsToProcess ==
    /\ pc = "start"
    /\ \E outcome \in ReadOutcomes :
          LET raw_rows == _fetch_sheet_values(main_sheet, outcome)
              parsed == _parse_rows(raw_rows, alias_order)
          IN  /\ main_header_indices' =
                    IF raw_rows = <<>> THEN main_header_indices ELSE parsed.indices
              /\ main_normalized_header' =
                    IF raw_rows = <<>> THEN main_normalized_header ELSE parsed.normalized
              /\ rows' = IF outcome = "raise" THEN rows ELSE RowsFlaggedSi(parsed.parsed_rows)
              /\ pc' = IF outcome = "raise" THEN "raised"
                       ELSE IF RowsFlaggedSi(parsed.parsed_rows) = <<>> THEN "done"
                       ELSE "get_index"
    /\ UNCHANGED <<call, ret, main_sheet, index_sheet, alias_order, index_records, cur,
                   work, writes, published, trace>>

\* index_records = google_client.get_index_records()
GetIndexRecords ==
    /\ pc = "get_index"
    /\ \E outcome \in ReadOutcomes :
          LET raw_rows == _fetch_sheet_values(index_sheet, outcome)
          IN  /\ index_records' = IF outcome = "raise" THEN index_records
                                  ELSE _parse_rows(raw_rows, alias_order).parsed_rows
              /\ pc' = IF outcome = "raise" THEN "raised" ELSE "exact"
    /\ cur' = 1
    /\ UNCHANGED <<call, ret, main_sheet, index_sheet, alias_order, main_header_indices,
                   main_normalized_header, rows, work, writes, published, trace>>

\* the exact check with its result ignored: the semantic check always follows
ExactCheckIgnored ==
    /\ pc = "exact"
    /\ LET dup == is_duplicate(Row.titulo, Row.keyword, Row.slug, index_records)
       IN  /\ pc' = "semantic"
           /\ trace' = <<Event(IF dup THEN "exact_dup" ELSE "exact_new")>>
    /\ work' = NoWork
    /\ UNCHANGED <<call, ret, main_sheet, index_sheet, alias_order, main_header_indices,
                   main_normalized_header, rows, index_records, cur, writes, published>>

\* if google_client.is_duplicate(title, keyword, slug, index_records)
ExactCheck ==
    /\ pc = "exact"
    /\ LET dup == is_duplicate(Row.titulo, Row.keyword, Row.slug, index_records)
       IN  /\ pc' = IF dup THEN "log_duplicate" ELSE "semantic"
           /\ trace' = <<Event(IF dup THEN "exact_dup" ELSE "exact_new")>>
    /\ work' = NoWork
    /\ UNCHANGED <<call, ret, main_sheet, index_sheet, alias_order, main_header_indices,
                   main_normalized_header, rows, index_records, cur, writes, published>>

\* if content_generator.is_semantic_duplicate(row, index_records)
SemanticCheck ==
    /\ pc = "semantic"
    /\ \E response \in Responses :
          LET result == is_semantic_duplicate(Row, index_records, response)
          IN  /\ pc' = IF result.raised THEN "except"
                       ELSE IF result.value THEN "log_duplicate" ELSE "generate"
              /\ trace' = Append(trace,
                                 Event(IF result.raised THEN "semantic_raise"
                                       ELSE IF result.value THEN "semantic_dup"
                                       ELSE "semantic_new"))
    /\ UNCHANGED <<call, ret, main_sheet, index_sheet, alias_order, main_header_indices,
                   main_normalized_header, rows, index_records, cur, work, writes,
                   published>>

\* google_client.log_duplicate(row_number); continue
LogDuplicate ==
    /\ pc = "log_duplicate"
    /\ \E outcome \in WriteOutcomes :
          /\ mark_status(Row.row_number, s_duplicado, outcome)
          /\ trace' = Append(trace, Event("duplicado_" \o outcome))
          /\ IF outcome = "raise" THEN pc' = "except" /\ cur' = cur ELSE Continue
    /\ UNCHANGED <<call, ret, main_sheet, index_sheet, alias_order, main_header_indices,
                   main_normalized_header, rows, index_records, work, published>>

\* content_payload = content_generator.generate(row)
Generate ==
    /\ pc = "generate"
    /\ \/ /\ pc' = "except"
          /\ work' = work
          /\ trace' = Append(trace, Event("generate_raise"))
       \/ \E content_payload \in Payloads :
             /\ pc' = "publish"
             /\ work' = [work EXCEPT !.title = content_payload.title,
                                     !.meta_description = content_payload.meta_description]
             /\ trace' = Append(trace, Event("generate_ok"))
    /\ UNCHANGED <<call, ret, main_sheet, index_sheet, alias_order, main_header_indices,
                   main_normalized_header, rows, index_records, cur, writes, published>>

\* post_response = wordpress_client.publish_post(...), then the locals
\* response_slug, post_url, post_id_str and excerpt
Publish ==
    /\ pc = "publish"
    /\ \/ /\ pc' = "except"
          /\ work' = work
          /\ published' = published
          /\ trace' = Append(trace, Event("publish_raise"))
       \/ \E post_response \in PostResponses :
             LET response_slug == IF post_response.slug # <<>> THEN post_response.slug
                                  ELSE Row.slug
             IN  /\ pc' = "mark_hecho"
                 /\ work' = [work EXCEPT
                        !.response_slug = response_slug,
                        !.post_url = IF post_response.link # <<>> THEN post_response.link
                                     ELSE build_post_url(RStripChar(WORDPRESS_BASE_URL, "/"),
                                                         response_slug),
                        !.post_id_str = post_response.id,
                        !.excerpt = Truncate(work.meta_description, ExcerptLen)]
                 /\ published' = Append(published,
                        [row_number |-> Row.row_number, keyword |-> Row.keyword,
                         slug |-> response_slug])
                 /\ trace' = Append(trace, Event("publish_ok"))
    /\ UNCHANGED <<call, ret, main_sheet, index_sheet, alias_order, main_header_indices,
                   main_normalized_header, rows, index_records, cur, writes>>

\* google_client.mark_status(row_number, "hecho")
MarkHecho ==
    /\ pc = "mark_hecho"
    /\ \E outcome \in WriteOutcomes :
          /\ mark_status(Row.row_number, s_hecho, outcome)
          /\ trace' = Append(trace, Event("hecho_" \o outcome))
          /\ pc' = IF outcome = "raise" THEN "except" ELSE "update_main_row"
    /\ UNCHANGED <<call, ret, main_sheet, index_sheet, alias_order, main_header_indices,
                   main_normalized_header, rows, index_records, cur, work, published>>

\* google_client.update_main_row(row_number, {slug, url, post_id, excerpt}): no
\* request is sent when no key has a column
UpdateMainRow ==
    /\ pc = "update_main_row"
    /\ LET data == (HEADER_SLUG :> work.response_slug) @@ (s_url :> work.post_url) @@
                   (s_post_id :> work.post_id_str) @@ (s_excerpt :> work.excerpt)
       IN  \E updates \in UpdateListsFrom(1, Row.row_number, data, main_normalized_header) :
              IF updates = <<>>
              THEN /\ writes' = writes
                   /\ pc' = "append"
                   /\ trace' = Append(trace, Event("aux_none"))
              ELSE \E outcome \in WriteOutcomes :
                      /\ writes' = IF outcome = "ok" THEN Append(writes, updates) ELSE writes
                      /\ pc' = IF outcome = "raise" THEN "except" ELSE "append"
                      /\ trace' = Append(trace, Event("aux_" \o outcome))
    /\ UNCHANGED <<call, ret, main_sheet, index_sheet, alias_order, main_header_indices,
                   main_normalized_header, rows, index_records, cur, work, published>>

\* the new entry put at the head of the index instead of its end
AppendIndexAtHead ==
    /\ pc = "append"
    /\ index_records' =
          <<[titulo |-> work.title, keyword |-> Row.keyword, categoria |-> Row.categoria,
             slug |-> work.response_slug, url |-> work.post_url,
             post_id |-> work.post_id_str, excerpt |-> work.excerpt]>> \o index_records
    /\ trace' = Append(trace, Event("append"))
    /\ Continue
    /\ UNCHANGED <<call, ret, main_sheet, index_sheet, alias_order, main_header_indices,
                   main_normalized_header, rows, work, writes, published>>

\* index_records.append(index_entry)
AppendIndex ==
    /\ pc = "append"
    /\ index_records' = Append(index_records,
          [titulo |-> work.title, keyword |-> Row.keyword, categoria |-> Row.categoria,
           slug |-> work.response_slug, url |-> work.post_url,
           post_id |-> work.post_id_str, excerpt |-> work.excerpt])
    /\ trace' = Append(trace, Event("append"))
    /\ Continue
    /\ UNCHANGED <<call, ret, main_sheet, index_sheet, alias_order, main_header_indices,
                   main_normalized_header, rows, work, writes, published>>

\* except Exception: google_client.mark_status(row_number, "error"); continue.
\* An exception of this mark_status is raised in the handler and leaves orchestrate.
HandleException ==
    /\ pc = "except"
    /\ \E outcome \in WriteOutcomes :
          /\ mark_status(Row.row_number, s_error, outcome)
          /\ trace' = Append(trace, Event("error_" \o outcome))
          /\ IF outcome = "raise" THEN pc' = "raised" /\ cur' = cur ELSE Continue
    /\ UNCHANGED <<call, ret, main_sheet, index_sheet, alias_order, main_header_indices,
                   main_normalized_header, rows, index_records, work, published>>

(***************************************************************************)
(* The run of orchestrate over a main sheet and a history sheet.           *)
(***************************************************************************)
HelperIdle == call = [fn |-> "none"] /\ ret = <<>>

\* the state of the client and of orchestrate before the first read
PipelineStart ==
    /\ main_header_indices = <<>>
    /\ main_normalized_header = <<>>
    /\ rows = <<>>
    /\ index_records = <<>>
    /\ pc = "start"
    /\ cur = 1
    /\ work = NoWork
    /\ writes = <<>>
    /\ published = <<>>
    /\ trace = <<>>

\* header rows of the main sheet: with and without the auxiliary columns
RunMainHeaders ==
    {<<<<"T", "i", "t", "u", "l", "o">>,
       <<"K", "e", "y", "w", "o", "r", "d", " ", "P", "r", "i", "n", "c", "i", "p", "a", "l">>,
       <<"C", "a", "t", "e", "g", "o", "r", "i", "a">>,
       <<"E", "j", "e", "c", "u", "t", "a", "r", "?">>,
       <<"S", "l", "u", "g">>, <<"U", "R", "L">>,
       <<"P", "o", "s", "t", " ", "I", "D">>,
       <<"E", "x", "t", "r", "a", "c", "t", "o">>>>,
     <<<<"t", "i", "t", "u", "l", "o">>,
       <<"k", "e", "y", "w", "o", "r", "d", "_", "p", "r", "i", "n", "c", "i", "p", "a", "l">>,
       <<"c", "a", "t", "e", "g", "o", "r", "i", "a">>,
       <<"e", "s", "t", "a", "d", "o">>>>}

\* data rows of the main sheet: title, keyword, category, flag, slug
RunMainRows ==
    {<<<<"a">>, <<"k">>, <<"c">>, <<"s", "i">>, <<"s">>>>,
     <<<<"b">>, <<"K", " ">>, <<"c">>, <<" ", "S", "I">>, <<"r">>>>,
     <<<<"d">>, <<"j">>, <<"e">>, <<"s", "i">>>>,
     <<<<"a">>, <<"m">>, <<"c">>, <<"n", "o">>, <<"z">>>>}

RunIndexHeader ==
    <<<<"t", "i", "t", "u", "l", "o">>,
      <<"k", "e", "y", "w", "o", "r", "d", " ", "p", "r", "i", "n", "c", "i", "p", "a", "l">>,
      <<"c", "a", "t", "e", "g", "o", "r", "i", "a">>,
      <<"s", "l", "u", "g">>>>

\* data rows of the history sheet: title, keyword, category, slug
RunIndexRows ==
    {<<<<"x">>, <<"k">>, <<"c">>, <<"y">>>>,
     <<<<"z">>, <<"n">>, <<"f">>, <<"s">>>>}

Init ==
    /\ HelperIdle
    /\ main_sheet \in {<<>>} \cup
          {<<h>> \o body : h \in RunMainHeaders, body \in BoundedSeq(RunMainRows, MaxRows)}
    /\ index_sheet \in {<<>>} \cup
          {<<RunIndexHeader>> \o body : body \in BoundedSeq(RunIndexRows, MaxIndexRows)}
    /\ alias_order \in AliasOrders({HEADER_SLUG})
    /\ PipelineStart

Next ==
    \/ GetRowsToProcess
    \/ GetIndexRecords
    \/ ExactCheck
    \/ SemanticCheck
    \/ LogDuplicate
    \/ Generate
    \/ Publish
    \/ MarkHecho
    \/ UpdateMainRow
    \/ AppendIndex
    \/ HandleException

Spec == Init /\ [][Next]_vars

\* the row the trace is about has left the loop body
RowFinished == trace # <<>> /\ pc \in {"exact", "done"}

\* the steps c-g of the trace's row in which a call failed
FailedSteps ==
    {i \in 1..Len(trace) :
        trace[i].ev \in {"generate_raise", "publish_raise", "hecho_http_error", "hecho_raise",
                         "aux_http_error", "aux_raise"}}

\* the trace's row has had mark_status(row_number, "error") called and returned
MarkedError ==
    \E i \in 1..Len(trace) : trace[i].ev \in {"error_ok", "error_http_error"}

\* C2: a failure in content generation, publishing, write-back or index append
\* of a row ends with that row marked error and the loop going on to the next
\* row: after such a failure the run does not abort.
C2_RowFailureIsolated ==
    /\ FailedSteps # {} => pc # "raised"
    /\ RowFinished /\ FailedSteps # {} => MarkedError

\* C4: when the duplicate checks of a row start, every post published for an
\* earlier row of this run has an Identity Record with its keyword and final
\* slug in the in-memory index.
C4_PublishedVisibleToLaterRows ==
    pc = "exact" =>
        \A i \in 1..Len(published) :
            published[i].row_number < Row.row_number =>
                \E j \in 1..Len(index_records) :
                    /\ Get(index_records[j], "keyword") = published[i].keyword
                    /\ Get(index_records[j], "slug") = published[i].slug

(***************************************************************************)
(* extract_slug applied to a raw slug or URL, and again to its own result. *)
(***************************************************************************)
\* the pipeline is not running while a helper is studied on its own
PipelineIdle ==
    /\ main_sheet = <<>>
    /\ index_sheet = <<>>
    /\ alias_order = HEADER_ALIASES
    /\ PipelineStart

\* scheme prefixes of the inputs, in the letter cases a sheet cell can hold
SlugPrefixes ==
    {<<>>, HttpPrefix, HttpsPrefix,
     <<"H", "T", "T", "P", ":", "/", "/">>,
     <<"H", "t", "t", "p", "s", ":", "/", "/">>}

\* characters of the inputs after the prefix
SlugChars == {"a", "B", " ", "/", "?"}

SlugInit ==
    /\ call \in {[fn |-> "extract_slug", value |-> prefix \o body] :
                    prefix \in SlugPrefixes, body \in BoundedSeq(SlugChars, MaxBody)}
    /\ ret = <<>>
    /\ PipelineIdle

\* slug = extract_slug(value)
ExtractSlug ==
    /\ call.fn = "extract_slug"
    /\ ret = <<>>
    /\ ret' = <<extract_slug(call.value)>>
    /\ UNCHANGED <<call, pipelineVars>>

\* extract_slug(slug): the result is normalized again, as is_duplicate does
\* with the slug of a parsed row
ExtractSlugAgain ==
    /\ call.fn = "extract_slug"
    /\ Len(ret) = 1
    /\ ret' = Append(ret, extract_slug(ret[1]))
    /\ UNCHANGED <<call, pipelineVars>>

SlugNext == ExtractSlug \/ ExtractSlugAgain

SpecSlug == SlugInit /\ [][SlugNext]_vars

\* C1: extract_slug is idempotent: for every raw slug or URL, in any letter
\* case and with or without an http(s):// prefix, applying extract_slug to
\* its own result gives that result again.
C1_ExtractSlugIdempotent == Len(ret) = 2 => ret[2] = ret[1]

(***************************************************************************)
(* The semantic stage on a candidate row and an index: the relevance       *)
(* filter, then the query to the model.                                    *)
(***************************************************************************)
\* the header row of the scenarios of the specification
ScenarioHeader ==
    <<<<"T", "i_acute", "t", "u", "l", "o">>,
      <<"K", "e", "y", "w", "o", "r", "d", " ", "P", "r", "i", "n", "c", "i", "p", "a", "l">>,
      <<"C", "a", "t", "e", "g", "o", "r", "i_acute", "a">>,
      <<"E", "j", "e", "c", "u", "t", "a", "r", "?">>,
      <<"S", "l", "u", "g">>>>

s_zapatos == <<"z", "a", "p", "a", "t", "o", "s">>
s_zapatos_rojos == <<"z", "a", "p", "a", "t", "o", "s", " ", "r", "o", "j", "o", "s">>

\* the rows of a sheet with the scenario header, parsed as the client does
ParsedSheet(data_rows) == _parse_rows(<<ScenarioHeader>> \o data_rows, HEADER_ALIASES).parsed_rows

\* candidate rows: title, keyword, category, flag
SemCandidateRows ==
    {<<<<"n">>, s_zapatos_rojos, <<"m", "o", "d", "a">>, <<"s", "i">>>>,
     <<<<"n">>, <<"Z", "a", "p", "a", "t", "o", "s">>, <<"m", "o", "d", "a">>, <<"s", "i">>>>,
     <<<<"n">>, <<>>, <<>>, <<"s", "i">>>>,
     <<<<"n">>, <<"g", "a", "t", "o", "s">>, <<"h", "o", "g", "a", "r">>, <<"s", "i">>>>}

\* history rows: title, keyword, category, flag, slug
SemCoreRows ==
    {<<<<"a">>, s_zapatos, <<"c", "a", "l", "z", "a", "d", "o">>, <<>>, <<"s", "1">>>>,
     <<<<"b">>, <<"Z", "a", "p", "a", "t", "o", "s", " ", "R", "o", "j", "o", "s">>,
       <<"c", "a", "l", "z", "a", "d", "o">>, <<>>, <<"s", "2">>>>,
     <<<<"c">>, <<"b", "o", "t", "a", "s">>, <<"M", "o", "d", "a">>, <<>>, <<"s", "3">>>>,
     <<<<"d">>, <<"s", "i", "l", "l", "a", "s">>, <<"o">>, <<>>, <<"s", "4">>>>}

\* history rows repeated at the head of the index
SemFillRows ==
    {<<<<"f">>, <<"b", "o", "t", "a", "s">>, <<"m", "o", "d", "a">>, <<>>, <<"f", "1">>>>,
     <<<<"g">>, <<"x">>, <<"y">>, <<>>, <<"f", "2">>>>}

SemInit ==
    /\ call \in {[fn |-> "is_semantic_duplicate",
                  candidate |-> ParsedSheet(<<c>>)[1],
                  records |-> ParsedSheet([i \in 1..n |-> f] \o core)] :
                    c \in SemCandidateRows, n \in 0..MaxFill, f \in SemFillRows,
                    core \in BoundedSeq(SemCoreRows, MaxCore)}
    /\ ret = <<>>
    /\ PipelineIdle

\* relevant_records = self._select_relevant_index(candidate, index_records)
SelectRelevantIndex ==
    /\ call.fn = "is_semantic_duplicate"
    /\ ret = <<>>
    /\ ret' = <<_select_relevant_index(call.candidate, call.records)>>
    /\ UNCHANGED <<call, pipelineVars>>

\* the rest of is_semantic_duplicate, for each reply the model can give
QueryModel ==
    /\ call.fn = "is_semantic_duplicate"
    /\ Len(ret) = 1
    /\ \E response \in Responses :
          ret' = Append(ret, [response |-> response,
                              result |-> is_semantic_duplicate(call.candidate, call.records,
                                                               response)])
    /\ UNCHANGED <<call, pipelineVars>>

SemNext == SelectRelevantIndex \/ QueryModel

SpecSemantic == SemInit /\ [][SemNext]_vars

\* C3: the semantic stage is fail-open: when the call to the model fails, or
\* its response holds no text or no decision object, is_semantic_duplicate
\* returns false and raises nothing.
C3_SemanticFailOpen ==
    Len(ret) = 2 /\ ret[2].result.called
                 /\ ret[2].response.kind \in {"call_raises", "no_text", "invalid_json", "not_object"}
        => ~ret[2].result.raised /\ ~ret[2].result.value

(***************************************************************************)
(* The exact stage on a candidate and an index: the index is a parsed      *)
(* history sheet, possibly followed by a record appended by this run.      *)
(***************************************************************************)
s_mi_post == <<"m", "i", "-", "p", "o", "s", "t">>
PathForm == <<"/", "b", "l", "o", "g", "/", "m", "i", "-", "p", "o", "s", "t", "/">>
UrlForm ==
    <<"h", "t", "t", "p", "s", ":", "/", "/", "x", "/", "b", "l", "o", "g", "/",
      "m", "i", "-", "p", "o", "s", "t", "/">>
UpperSchemeForm ==
    <<"H", "T", "T", "P", ":", "/", "/", "x", "/", "m", "i", "-", "p", "o", "s", "t">>

\* header row of the sheets of the exact stage: a slug and a url column
DupHeader ==
    <<<<"t", "i", "t", "u", "l", "o">>,
      <<"k", "e", "y", "w", "o", "r", "d", " ", "p", "r", "i", "n", "c", "i", "p", "a", "l">>,
      <<"s", "l", "u", "g">>, s_url>>

\* history rows: title, keyword, slug, url
DupIndexRows ==
    {<<<<"o">>, <<"g">>, s_mi_post>>,
     <<<<>>, <<>>, <<>>, <<>>>>,
     <<<<"p">>, <<"h">>, <<>>, UrlForm>>,
     <<<<"q">>, <<"i">>, UpperSchemeForm>>,
     <<<<" ", "T">>, <<"K">>, <<"M", "i", "-", "P", "o", "s", "t", " ">>>>}

\* candidate rows: title, keyword, slug
DupCandidateRows ==
    {<<<<"n">>, <<"j">>, PathForm>>,
     <<<<"n">>, <<"j">>, UrlForm>>,
     <<<<>>, <<" ">>, <<>>>>,
     <<<<"n">>, <<"j">>, <<" ", "M", "I", "-", "P", "O", "S", "T">>>>,
     <<<<"n">>, <<"j">>, UpperSchemeForm>>,
     <<<<"t">>, <<"j">>, <<"z">>>>,
     <<<<"n">>, <<"H", " ">>>>}

\* a record as orchestrate appends it after publishing
DupAppended ==
    {[titulo |-> <<"g">>, keyword |-> <<"l">>, categoria |-> <<>>, slug |-> <<"w">>,
      url |-> <<"h", "t", "t", "p", ":", "/", "/", "b", "/", "w">>,
      post_id |-> <<"7">>, excerpt |-> <<>>]}

DupInit ==
    /\ alias_order \in AliasOrders({HEADER_SLUG})
    /\ \E r \in DupCandidateRows, body \in BoundedSeq(DupIndexRows, MaxDupRows),
          tail \in BoundedSeq(DupAppended, 1), raw \in BOOLEAN :
            LET c == _parse_rows(<<DupHeader, r>>, alias_order).parsed_rows[1]
                history == _parse_rows(<<DupHeader>> \o body, alias_order).parsed_rows
            IN  call = [fn |-> "is_duplicate", title |-> c.titulo, keyword |-> c.keyword,
                        slug |-> IF raw THEN c.slug_raw ELSE c.slug,
                        records |-> history \o tail]
    /\ ret = <<>>
    /\ main_sheet = <<>>
    /\ index_sheet = <<>>
    /\ PipelineStart

\* google_client.is_duplicate(title, keyword, slug, index_records)
IsDuplicate ==
    /\ call.fn = "is_duplicate"
    /\ ret = <<>>
    /\ ret' = <<is_duplicate(call.title, call.keyword, call.slug, call.records)>>
    /\ UNCHANGED <<call, pipelineVars>>

DupNext == IsDuplicate

SpecDup == DupInit /\ [][DupNext]_vars

\* str.strip().lower(): the comparison form of a title, keyword or slug
Norm(v) == Lower(Strip(v))

\* C6: is_duplicate returns true whenever the candidate slug equals the slug
\* of some index record, both compared case-insensitively and ignoring
\* surrounding whitespace, whatever the titles and keywords.
C6_EqualSlugIsDuplicate ==
    Len(ret) = 1 /\ Norm(call.slug) # <<>>
                 /\ (\E i \in 1..Len(call.records) :
                        Norm(Get(call.records[i], "slug")) = Norm(call.slug))
        => ret[1]

\* the slug a record is compared by: its slug field, else the slug of its url
RecordedSlug(record) ==
    IF Get(record, "slug") # <<>> THEN Get(record, "slug")
    ELSE extract_slug(Get(record, "url"))

\* the candidate of the call shares a non-empty title or keyword with a record
TitleOrKeywordShared ==
    \E i \in 1..Len(call.records) :
        \/ Norm(call.title) # <<>>
              /\ Norm(Get(call.records[i], "titulo")) = Norm(call.title)
        \/ Norm(call.keyword) # <<>>
              /\ Norm(Get(call.records[i], "keyword")) = Norm(call.keyword)

\* the index of the call holds a record with slug "mi-post"
IndexHoldsMiPost ==
    \E i \in 1..Len(call.records) : Get(call.records[i], "slug") = s_mi_post

\* C7 as stated: with a record of slug "mi-post" in the index and no title or
\* keyword in common, the candidate slug "/blog/mi-post/" makes is_duplicate
\* return true.
C7_PathFormIsDuplicate ==
    Len(ret) = 1 /\ IndexHoldsMiPost /\ call.slug = PathForm /\ ~TitleOrKeywordShared
        => ret[1]

\* C7 amended: with a record of slug "mi-post" in the index, a candidate slug
\* given as the http(s) URL "https://x/blog/mi-post/" is reduced to its last
\* non-empty path segment and is_duplicate returns true; the scheme-less path
\* "/blog/mi-post/" is compared whole, so with no title or keyword in common
\* and no record whose slug is that path, is_duplicate returns false.
C7_OnlyUrlFormIsReduced ==
    Len(ret) = 1 /\ IndexHoldsMiPost =>
        /\ call.slug = UrlForm => ret[1]
        /\ call.slug = PathForm /\ ~TitleOrKeywordShared
              /\ (\A i \in 1..Len(call.records) : RecordedSlug(call.records[i]) # PathForm)
             => ~ret[1]

C7_PathFormCompared ==
    /\ Len(ret) = 1
    /\ IndexHoldsMiPost
    /\ call.slug = PathForm
    /\ ~TitleOrKeywordShared
    /\ ~ret[1]

\* every comparison field of a record is empty
AllEmpty(record) ==
    /\ Norm(Get(record, "titulo")) = <<>>
    /\ Norm(Get(record, "keyword")) = <<>>
    /\ Get(record, "slug") = <<>>
    /\ Get(record, "url") = <<>>

\* C8: an empty comparison value never counts as a match: is_duplicate
\* returns false when the candidate's title, keyword and slug are all empty
\* after normalization, returns false when every record of the index has an
\* empty title, keyword, slug and url, and returns true only if some record
\* that is not all empty shares a non-empty value with the candidate.
C8_EmptyNeverMatches ==
    Len(ret) = 1 =>
        /\ Norm(call.title) = <<>> /\ Norm(call.keyword) = <<>>
              /\ extract_slug(call.slug) = <<>> => ~ret[1]
        /\ (\A i \in 1..Len(call.records) : AllEmpty(call.records[i])) => ~ret[1]
        /\ ret[1] =>
              \E i \in 1..Len(call.records) :
                  /\ ~AllEmpty(call.records[i])
                  /\ \/ Norm(call.title) # <<>>
                           /\ Norm(Get(call.records[i], "titulo")) = Norm(call.title)
                     \/ Norm(call.keyword) # <<>>
                           /\ Norm(Get(call.records[i], "keyword")) = Norm(call.keyword)
                     \/ extract_slug(call.slug) # <<>>
                           /\ RecordedSlug(call.records[i]) = extract_slug(call.slug)

C8_EmptyMeetsEmpty ==
    /\ Len(ret) = 1
    /\ Norm(call.title) = <<>>
    /\ Norm(call.keyword) = <<>>
    /\ extract_slug(call.slug) = <<>>
    /\ \E i \in 1..Len(call.records) : AllEmpty(call.records[i])
    /\ ~ret[1]

\* record i of the call's index is among the records passed to the model
Selected(i) == \E j \in 1..Len(ret[1]) : ret[1][j] = Summary(call.records[i])

\* record i holds the candidate's keyword within its own, or has its category
KeywordOrCategoryMatch(i) ==
    \/ /\ Norm(call.candidate.keyword) # <<>>
       /\ Contains(Norm(Get(call.records[i], "keyword")), Norm(call.candidate.keyword))
    \/ /\ Norm(call.candidate.categoria) # <<>>
       /\ Norm(Get(call.records[i], "categoria")) = Norm(call.candidate.categoria)

\* C9 as stated: for a candidate with keyword "zapatos rojos" the relevance
\* filter selects an index record with keyword "zapatos", whatever else the
\* index holds.
C9_ShorterKeywordSelected ==
    Len(ret) >= 1 /\ call.fn = "is_semantic_duplicate"
                  /\ Norm(call.candidate.keyword) = s_zapatos_rojos =>
        \A i \in 1..Len(call.records) :
            Norm(Get(call.records[i], "keyword")) = s_zapatos => Selected(i)

\* C9 amended: the substring test runs the other way. For a candidate with
\* keyword "zapatos" an index record with keyword "zapatos rojos" is selected,
\* provided fewer than 25 records matching the candidate by keyword or
\* category precede it; for a candidate with keyword "zapatos rojos" a record
\* with keyword "zapatos" and another category is not selected when the index
\* holds a record that matches the candidate.
C9_ContainingKeywordSelected ==
    Len(ret) >= 1 /\ call.fn = "is_semantic_duplicate" =>
        \A i \in 1..Len(call.records) :
            /\ Norm(call.candidate.keyword) = s_zapatos
                  /\ Norm(Get(call.records[i], "keyword")) = s_zapatos_rojos
                  /\ Cardinality({k \in 1..(i - 1) : KeywordOrCategoryMatch(k)}) < limit
                 => Selected(i)
            /\ Norm(call.candidate.keyword) = s_zapatos_rojos
                  /\ Norm(Get(call.records[i], "keyword")) = s_zapatos
                  /\ ~KeywordOrCategoryMatch(i)
                  /\ (\E k \in 1..Len(call.records) : KeywordOrCategoryMatch(k))
                 => ~Selected(i)

C9_LongerKeywordRecordSelected ==
    /\ Len(ret) >= 1
    /\ call.fn = "is_semantic_duplicate"
    /\ Norm(call.candidate.keyword) = s_zapatos
    /\ \E i, k \in 1..Len(call.records) :
          /\ Norm(Get(call.records[i], "keyword")) = s_zapatos_rojos
          /\ Selected(i)
          /\ k # i
          /\ Norm(Get(call.records[k], "categoria")) = Norm(call.candidate.categoria)
          /\ ~Contains(Norm(Get(call.records[k], "keyword")), s_zapatos)

(***************************************************************************)
(* Reading the two sheets: get_rows_to_process and get_index_records on    *)
(* sheets with the header of the parsing scenario.                         *)
(***************************************************************************)
\* the data row of the parsing scenario
ScenarioRow ==
    <<<<"M", "i", " ", "P", "o", "s", "t">>, <<"c", "l", "a", "v", "e", " ", "x">>,
      <<"T", "e", "c", "n", "o", "l", "o", "g", "i_acute", "a">>, <<"s", "i">>,
      <<"/", "m", "i", "-", "p", "o", "s", "t">>>>

\* data rows: title, keyword, category, flag, slug
ParseRows ==
    {ScenarioRow,
     <<<<"a">>, <<"k">>, <<"c">>, <<"S", "I", " ">>, <<"s">>>>,
     <<<<"b">>, <<"k">>, <<"c">>, <<"N", "o">>, <<"r">>>>,
     <<<<"c">>, <<"k">>, <<"c">>, <<>>>>,
     <<<<"d">>, <<"k">>, <<"c">>, <<" ", "n", "O", " ">>>>,
     <<<<"e">>, <<"k">>, <<"c">>, <<"s", "i", "i">>>>,
     <<<<"f">>, <<"k">>, <<"c">>>>,
     <<<<"g">>, <<"k">>, <<"c">>, <<" ", "S", "i">>,
       <<"H", "T", "T", "P", "S", ":", "/", "/", "x", "/", "y", "/">>>>}

ParseSheets == {<<ScenarioHeader>> \o body : body \in BoundedSeq(ParseRows, MaxRows)}

ParseInit ==
    /\ HelperIdle
    /\ main_sheet \in ParseSheets
    /\ index_sheet \in {<<>>, <<ScenarioHeader, ScenarioRow>>}
    /\ alias_order = HEADER_ALIASES
    /\ PipelineStart

ParseNext == GetRowsToProcess \/ GetIndexRecords

SpecParse == ParseInit /\ [][ParseNext]_vars

\* a flag cell that reads "si" but for letter case and surrounding spaces
FlagIsSi(cell) ==
    \E i \in 1..Len(cell) :
        /\ i < Len(cell)
        /\ cell[i] \in {"s", "S"}
        /\ cell[i + 1] \in {"i", "I"}
        /\ \A j \in 1..Len(cell) : j \notin {i, i + 1} => IsSpace(cell[j])

\* the positions in the main sheet of the rows flagged for processing
FlaggedPositions ==
    {n \in 2..Len(main_sheet) : Len(main_sheet[n]) >= 4 /\ FlagIsSi(main_sheet[n][4])}

\* C5: get_rows_to_process returns exactly the data rows whose flag cell,
\* trimmed and lower-cased, equals "si", in sheet order: when rows were
\* returned they are the flagged rows of the sheet, each once and in
\* increasing row position; a sheet without flagged rows ends the run.
C5_RowsAreTheFlaggedRows ==
    /\ pc = "get_index" =>
          /\ {rows[k].row_number : k \in 1..Len(rows)} = FlaggedPositions
          /\ \A k \in 1..Len(rows) :
                /\ k < Len(rows) => rows[k].row_number < rows[k + 1].row_number
                /\ rows[k].titulo = Strip(main_sheet[rows[k].row_number][1])
    /\ pc = "start" \/ FlaggedPositions = {} => rows = <<>> /\ pc # "get_index"

C5_UpperCaseFlagIncluded ==
    /\ pc = "get_index"
    /\ Len(main_sheet) = 3
    /\ Len(main_sheet[2]) >= 4
    /\ Len(main_sheet[3]) >= 4
    /\ main_sheet[2][4] = <<"N", "o">>
    /\ main_sheet[3][4] = <<"S", "I", " ">>
    /\ Len(rows) = 1
    /\ rows[1].row_number = 3

\* the parsed row of the scenario's data row at position n of the main sheet
ScenarioParsed(n, k) ==
    /\ pc = "get_index"
    /\ n \in 2..Len(main_sheet)
    /\ main_sheet[n] = ScenarioRow
    /\ k \in 1..Len(rows)
    /\ rows[k].row_number = n

\* C10 as stated: the data row of the scenario is parsed to a row with slug
\* "mi-post", execution flag "si" and an empty url.
C10_LeadingSlashRemoved ==
    \A n \in 2..Len(main_sheet), k \in 1..Len(rows) :
        ScenarioParsed(n, k) =>
            /\ rows[k].slug = s_mi_post
            /\ rows[k].ejecutar = <<"s", "i">>
            /\ rows[k].url = <<>>

\* C10 amended: the data row of the scenario is parsed to a row with slug
\* "/mi-post" (a value that is not an http(s) URL keeps its slashes),
\* execution flag "si" and an empty url.
C10_LeadingSlashKept ==
    \A n \in 2..Len(main_sheet), k \in 1..Len(rows) :
        ScenarioParsed(n, k) =>
            /\ rows[k].slug = <<"/", "m", "i", "-", "p", "o", "s", "t">>
            /\ rows[k].ejecutar = <<"s", "i">>
            /\ rows[k].url = <<>>
            /\ rows[k].titulo = <<"M", "i", " ", "P", "o", "s", "t">>

C10_ScenarioRowParsed ==
    \E n \in 2..Len(main_sheet), k \in 1..Len(rows) :
        ScenarioParsed(n, k) /\ rows[k].slug = <<"/", "m", "i", "-", "p", "o", "s", "t">>

(***************************************************************************)
(* The parser on a header row and one data row.                            *)
(***************************************************************************)
\* header cells as a sheet can hold them
HeaderCells ==
    {<<"S", "l", "u", "g", " ">>, <<" ", "U", "R", "L">>, <<"E", "s", "t", "a", "d", "o">>,
     <<"S", "T", "A", "T", "U", "S">>, <<"T", "I_acute", "t", "u", "l", "o">>, <<"x">>}

\* data rows, from empty to longer than the header
DataRows ==
    {<<>>, <<<<"a">>>>, <<<<" ", "b">>, <<"c", " ">>>>,
     <<<<"d">>, <<>>, <<"e">>, <<"f">>>>}

HeaderInit ==
    /\ alias_order \in AliasOrders({HEADER_SLUG, HEADER_EJECUTAR})
    /\ call \in {[fn |-> "_parse_rows", raw_rows |-> <<h, r>>] :
                    h \in BoundedSeq(HeaderCells, MaxHeader), r \in DataRows}
    /\ ret = <<>>
    /\ main_sheet = <<>>
    /\ index_sheet = <<>>
    /\ PipelineStart

\* self._parse_rows(raw_rows, sheet_type)
ParseRawRows ==
    /\ call.fn = "_parse_rows"
    /\ ret = <<>>
    /\ ret' = <<_parse_rows(call.raw_rows, alias_order)>>
    /\ UNCHANGED <<call, pipelineVars>>

HeaderNext == ParseRawRows

SpecHeader == HeaderInit /\ [][HeaderNext]_vars

\* the positions of the header cells of the call that read as an alias of field k
AliasCells(k) ==
    {i \in 1..Len(call.raw_rows[1]) : Norm(call.raw_rows[1][i]) \in Range(HEADER_ALIASES[k])}

\* C11: for every header row in which some cell, trimmed and lower-cased,
\* equals an alias of a canonical field, the resolver maps that field to the
\* index of a header cell that reads as one of the field's aliases.
C11_AliasCellResolved ==
    Len(ret) = 1 =>
        \A n \in 1..Len(HEADER_KEYS) :
            AliasCells(HEADER_KEYS[n]) # {} =>
                /\ HEADER_KEYS[n] \in DOMAIN ret[1].indices
                /\ ret[1].indices[HEADER_KEYS[n]] + 1 \in AliasCells(HEADER_KEYS[n])

C11_CasedHeaderResolved ==
    /\ Len(ret) = 1
    /\ Len(call.raw_rows[1]) = 3
    /\ call.raw_rows[1][1] = <<"x">>
    /\ call.raw_rows[1][2] = <<"S", "T", "A", "T", "U", "S">>
    /\ call.raw_rows[1][3] = <<"T", "I_acute", "t", "u", "l", "o">>
    /\ ret[1].indices[HEADER_EJECUTAR] = 1
    /\ ret[1].indices[HEADER_TITULO] = 2

\* the key of a parsed row that holds the cell of each canonical field
FieldOf ==
    (HEADER_TITULO :> "titulo") @@ (HEADER_KEYWORD :> "keyword") @@
    (HEADER_DESCRIPCION :> "descripcion") @@ (HEADER_CATEGORIA :> "categoria") @@
    (HEADER_EJECUTAR :> "ejecutar") @@ (HEADER_SLUG :> "slug_raw")

\* C12: cell lookup by canonical field is safe-indexed: every data row, of
\* any length, is parsed to a row (nothing is raised), and a field reads as
\* the empty string when the header row holds none of its aliases or when
\* the row is shorter than the column the field is mapped to.
C12_SafeIndexed ==
    Len(ret) = 1 =>
        /\ Len(ret[1].parsed_rows) = Len(call.raw_rows) - 1
        /\ \A n \in 1..Len(HEADER_KEYS) :
              LET k == HEADER_KEYS[n]
                  value == ret[1].parsed_rows[1][FieldOf[k]]
              IN  /\ AliasCells(k) = {} => value = <<>>
                  /\ k \in DOMAIN ret[1].indices
                        /\ Len(call.raw_rows[2]) <= ret[1].indices[k] => value = <<>>

C12_ShortRowReadsEmpty ==
    /\ Len(ret) = 1
    /\ Len(call.raw_rows[2]) = 2
    /\ AliasCells(HEADER_TITULO) = {}
    /\ HEADER_SLUG \in DOMAIN ret[1].indices
    /\ ret[1].indices[HEADER_SLUG] = 2
    /\ ret[1].parsed_rows[1].slug_raw = <<>>
    /\ ret[1].parsed_rows[1].titulo = <<>>

\* C13: with an empty Identity Index is_semantic_duplicate returns false
\* without querying the model, whatever the model would have answered.
C13_EmptyIndexNoQuery ==
    call.fn = "is_semantic_duplicate" /\ call.records = <<>> =>
        /\ Len(ret) >= 1 => ret[1] = <<>>
        /\ Len(ret) = 2 =>
              /\ ~ret[2].result.called
              /\ ~ret[2].result.raised
              /\ ~ret[2].result.value

C13_EmptyIndexAnswered ==
    /\ call.fn = "is_semantic_duplicate"
    /\ call.records = <<>>
    /\ Len(ret) = 2
    /\ ret[2].response.kind = "object"
    /\ ret[2].response.duplicate
    /\ ~ret[2].result.called
    /\ ~ret[2].result.value

\* the events of the row in hand, in the order they happened
Evs == [i \in 1..Len(trace) |-> trace[i].ev]

SemanticEvents == {"semantic_raise", "semantic_dup", "semantic_new"}
WorkEvents == {"generate_raise", "generate_ok", "publish_raise", "publish_ok"}
DuplicadoEvents == {"duplicado_ok", "duplicado_http_error", "duplicado_raise"}

\* C14: for every processed row the semantic check is invoked only after the
\* exact check returned false, and generation and publishing only after both
\* checks returned false; a row for which either check returns true has the
\* status duplicado requested for it as the next step and is never generated
\* or published. Every row is published at most once.
C14_ChecksGateGeneration ==
    /\ \A i \in 1..Len(trace) :
          /\ trace[i].row = trace[1].row
          /\ Evs[i] \in SemanticEvents => i = 2 /\ Evs[1] = "exact_new"
          /\ Evs[i] \in WorkEvents =>
                i > 2 /\ Evs[1] = "exact_new" /\ Evs[2] = "semantic_new"
          /\ Evs[i] \in {"exact_dup", "semantic_dup"} =>
                /\ \A j \in 1..Len(trace) : Evs[j] \notin WorkEvents
                /\ i < Len(trace) => Evs[i + 1] \in DuplicadoEvents
                /\ i = Len(trace) => pc = "log_duplicate"
    /\ pc \in {"generate", "publish"} =>
          Len(trace) >= 2 /\ Evs[1] = "exact_new" /\ Evs[2] = "semantic_new"
    /\ \A i, j \in 1..Len(published) :
          i < j => published[i].row_number < published[j].row_number

C14_SemanticDuplicateSkipped ==
    /\ pc \in {"exact", "done"}
    /\ Len(trace) = 3
    /\ Evs[1] = "exact_new"
    /\ Evs[2] = "semantic_dup"
    /\ Evs[3] = "duplicado_ok"
    /\ Len(writes) >= 1
    /\ writes[Len(writes)][1].value = s_duplicado

\* the positions in the call's index of the records the filter keeps: those
\* that match the candidate, or all of them when none matches
KeptPositions ==
    LET matching == {i \in 1..Len(call.records) : KeywordOrCategoryMatch(i)}
    IN  IF matching = {} THEN 1..Len(call.records) ELSE matching

\* the j-th smallest position of a set of positions
NthOf(positions, j) ==
    CHOOSE i \in positions : Cardinality({k \in positions : k < i}) = j - 1

\* C15: the records _select_relevant_index puts in the query are the first
\* min(25, n) elements, in index order, of the subsequence of the index that
\* matches the candidate (the record's keyword contains the candidate's
\* keyword, or the categories are equal; trimmed, lower-cased, and a missing
\* keyword or category matching nothing) when that subsequence is not empty,
\* and of the full index otherwise: never more than 25, never reordered.
C15_FirstTwentyFiveInOrder ==
    Len(ret) >= 1 /\ call.fn = "is_semantic_duplicate" =>
        LET kept == KeptPositions
        IN  /\ Len(ret[1]) = IF Cardinality(kept) < 25 THEN Cardinality(kept) ELSE 25
            /\ \A j \in 1..Len(ret[1]) :
                  ret[1][j] = Summary(call.records[NthOf(kept, j)])

C15_MatchingRecordsCut ==
    /\ Len(ret) >= 1
    /\ call.fn = "is_semantic_duplicate"
    /\ Len(ret[1]) = 25
    /\ Cardinality(KeptPositions) > 25
    /\ Cardinality(KeptPositions) < Len(call.records)

\* the requests the sheet accepted that wrote the status cell of row r
StatusWritesOf(r) ==
    {i \in 1..Len(writes) :
        \E k \in 1..Len(writes[i]) :
            writes[i][k].row = r /\ writes[i][k].key = HEADER_EJECUTAR}

\* C16: the statuses hecho, duplicado and error are terminal: during a run
\* the status cell of a row is written at most once, by mark_status, with one
\* of the three tokens, and a row written as hecho is never afterwards
\* written as error.
C16_StatusWrittenOnce ==
    \A n \in 1..Len(rows) :
        /\ Cardinality(StatusWritesOf(rows[n].row_number)) <= 1
        /\ \A i \in StatusWritesOf(rows[n].row_number) :
              /\ Len(writes[i]) = 1
              /\ writes[i][1].value \in {s_hecho, s_duplicado, s_error}

\* sequence a is the start of sequence b
IsPrefix(a, b) == Len(a) <= Len(b) /\ SubSeq(b, 1, Len(a)) = a

ErrorEvents == {"error_ok", "error_http_error", "error_raise"}

\* C17: the in-memory Identity Index is append-only during a run: once it is
\* loaded, every step leaves the previous index as a prefix of the new one;
\* the only step that changes it adds exactly one record, for a row that was
\* published and for which hecho was requested, and ends that row, so a row
\* that ends as duplicado or error leaves the index as it was.
C17_IndexAppendOnly ==
    [][pc # "get_index" =>
          /\ IsPrefix(index_records, index_records')
          /\ index_records' # index_records =>
                /\ Len(index_records') = Len(index_records) + 1
                /\ \E i \in 1..Len(trace) : Evs[i] = "publish_ok"
                /\ \E i \in 1..Len(trace) : Evs[i] \in {"hecho_ok", "hecho_http_error"}
                /\ \A i \in 1..Len(trace) :
                      Evs[i] \notin DuplicadoEvents \cup ErrorEvents
                                    \cup {"exact_dup", "semantic_dup"}
                /\ trace'[Len(trace')].ev = "append"
                /\ cur' = cur + 1
                /\ index_records'[Len(index_records')].keyword = rows[cur].keyword]_vars

C17_RecordAppendedToLoadedIndex ==
    /\ pc \in {"exact", "done"}
    /\ Len(trace) >= 1
    /\ trace[Len(trace)].ev = "append"
    /\ Len(index_records) = 2
    /\ "row_number" \in DOMAIN index_records[1]
    /\ "post_id" \in DOMAIN index_records[2]

\* the positions of the header cells of the call that read as the text name
CellsReading(name) ==
    {i \in 1..Len(call.raw_rows[1]) : Norm(call.raw_rows[1][i]) = name}

\* C18: header resolution prefers the slug column: when the header row holds
\* both a "slug" and a "url" column, the slug field is mapped to a "slug"
\* column and the parsed slug is read from it; the "url" column is read for
\* the slug only when there is no "slug" column.
C18_SlugColumnPreferred ==
    Len(ret) = 1 /\ call.fn = "_parse_rows" /\ CellsReading(HEADER_SLUG) # {} =>
        /\ HEADER_SLUG \in DOMAIN ret[1].indices
        /\ ret[1].indices[HEADER_SLUG] + 1 \in CellsReading(HEADER_SLUG)
        /\ ret[1].parsed_rows[1].slug_raw =
              IF ret[1].indices[HEADER_SLUG] < Len(call.raw_rows[2])
              THEN Strip(call.raw_rows[2][ret[1].indices[HEADER_SLUG] + 1])
              ELSE <<>>

\* C19: when the main sheet's header has both a "slug" and a "url" column,
\* every request update_main_row sends writes the slug value to the "slug"
\* column and the url value to the "url" column, and no two of its fields to
\* the same cell.
C19_AuxFieldsInOwnCells ==
    HEADER_SLUG \in DOMAIN main_normalized_header /\ s_url \in DOMAIN main_normalized_header =>
        \A i \in 1..Len(writes) :
            \A a, b \in 1..Len(writes[i]) :
                /\ writes[i][a].key = HEADER_SLUG /\ Len(writes[i]) > 1 =>
                      writes[i][a].col = main_normalized_header[HEADER_SLUG]
                /\ writes[i][a].key = s_url =>
                      writes[i][a].col = main_normalized_header[s_url]
                /\ a # b => writes[i][a].col # writes[i][b].col

====
